---- MODULE Spec2Model ----
(***************************************************************************)
(* Model of train.py: the training/sampling loop Configs.run, and the      *)
(* SimpleAccuracyFunc and CrossEntropyLoss adapters.                       *)
(*                                                                         *)
(* What train.py inherits or imports from packages whose code is not in    *)
(* the source tree (the training_loop iterator and run_step of             *)
(* TrainValidConfigs, the vocabulary, the sequence model) is modelled from *)
(* the design document.                                                    *)
(***************************************************************************)
EXTENDS Integers, Sequences, FiniteSets, TLC

(* ------------------------------ bounds -------------------------------- *)
MaxEpochs == 3
MaxBatches == 2
MaxParam == 1
MaxT == 3
MaxB == 2
MaxScore == 2
MaxTokens == 3

(* ---------------------------- constants ------------------------------- *)
\* monit.iterate('Sample', 25)
SampleSteps == 25

\* prompt = 'def train(' as a sequence of characters
PromptText == <<"d", "e", "f", " ", "t", "r", "a", "i", "n", "(">>

\* TextDataset.itos: the vocabulary, here the sorted characters of the prompt
itos == <<" ", "(", "a", "d", "e", "f", "i", "n", "r", "t">>

n_tokens == Len(itos)

Params == 0..MaxParam

VARIABLES
    pc,         \* Idle | Sampling | TrainPass | ValidPass | Done | Aborted
    epochs,     \* conf.epochs
    epoch,      \* iterations of training_loop started
    i,          \* sampling steps done in this epoch
    prompt,     \* the prompt accumulated so far
    log,        \* the (text, style) pairs of this epoch
    nLogs,      \* logger.log calls made
    lastLog,    \* the list handed to the last logger.log call
    params,     \* the model's parameter store
    training,   \* the model's mode flag (nn.Module.training)
    nTrain,     \* windows the train loader yields per epoch
    nValid,     \* windows the valid loader yields per epoch
    trainIdx,   \* windows consumed by the current TrainPass
    validIdx,   \* windows consumed by the current ValidPass
    runSteps,   \* run_step calls made
    trainDone,  \* TrainPasses completed
    validDone,  \* ValidPasses completed
    calls,      \* observed model invocations: <<phase, training>>
    samples,    \* observed Sampling runs: [params, gen]
    repeated,   \* a Sampling run was made with parameters sampled before
    errors,     \* errors raised so far
    errSnap,    \* the phase and the progress when the error was raised
    apc,        \* SimpleAccuracyFunc call: Row | Done
    mT, mB, mV, \* shape (T, B, vocab) of its output argument
    row,        \* rows (t, b) summed so far
    correct,    \* pred.eq(target).sum() so far
    truth,      \* rows so far whose target is the first maximal score
    acc,        \* SimpleAccuracyFunc's return value
    lpc,        \* CrossEntropyLoss call: Call | Done
    outputs,    \* its outputs argument, shape (T, B, vocab)
    targets,    \* its targets argument, shape (T, B)
    loss        \* CrossEntropyLoss's return value

loopVars == <<pc, epochs, epoch, i, prompt, log, nLogs, lastLog, params,
              training, nTrain, nValid, trainIdx, validIdx, runSteps,
              trainDone, validDone, calls, samples, repeated, errors, errSnap>>

accVars == <<apc, mT, mB, mV, row, correct, truth, acc>>

lossVars == <<lpc, outputs, targets, loss>>

metricVars == <<accVars, lossVars>>

vars == <<loopVars, metricVars>>

(* ------------------------- tensor primitives -------------------------- *)
\* torch argmax(dim=-1): the index of the first maximal value
Argmax(s) ==
    CHOOSE k \in DOMAIN s :
        \A j \in DOMAIN s : s[j] < s[k] \/ (s[j] = s[k] /\ k <= j)

(* ----------------------------- vocabulary ----------------------------- *)
\* token ids are written 1..n_tokens (Python's 0..n_tokens-1)
stoi(c) == CHOOSE k \in 1..Len(itos) : itos[k] = c

itosAt(id) == itos[id]

text_to_i(text) == [k \in 1..Len(text) |-> stoi(text[k])]

(* ------------------------------- model -------------------------------- *)
\* the hidden state after reading data[1..k]
RECURSIVE Mix(_, _)
Mix(data, k) == IF k = 0 THEN 0 ELSE (3 * Mix(data, k - 1) + data[k] + k) % 7

\* score of vocabulary entry v in hidden state h under parameters p
Score(p, h, v) == ((h + 1) * (v + 1 + p) + (p + 1) * v * v) % 11

\* the scores of vocabulary entries 1..n in hidden state h
RECURSIVE ScoreRow(_, _, _)
ScoreRow(p, h, n) ==
    IF n = 0 THEN <<>> ELSE Append(ScoreRow(p, h, n - 1), Score(p, h, n))

\* self.model(data): per position k, a score per vocabulary entry, a
\* deterministic function of the parameters and of data[1..k]
Forward(p, data) ==
    [k \in DOMAIN data |-> ScoreRow(p, Mix(data, k), n_tokens)]

(* --------------------------- Configs.run ------------------------------ *)
Phases == {"Idle", "Sampling", "TrainPass", "ValidPass", "Done", "Aborted"}

\* the symbols generated so far in this epoch
Generated(pr) == SubSeq(pr, Len(PromptText) + 1, Len(pr))

\* the progress an error freezes
Progress == <<epoch, i, trainIdx, validIdx, runSteps, trainDone, validDone, nLogs, params>>

InitLoop ==
    /\ pc = "Idle"
    /\ epochs \in 0..MaxEpochs
    /\ epoch = 0
    /\ i = 0
    /\ prompt = <<>>
    /\ log = <<>>
    /\ nLogs = 0
    /\ lastLog = <<>>
    /\ params \in Params
    /\ training = TRUE      \* a freshly constructed nn.Module is in training mode
    /\ nTrain \in 0..MaxBatches
    /\ nValid \in 0..MaxBatches
    /\ trainIdx = 0
    /\ validIdx = 0
    /\ runSteps = 0
    /\ trainDone = 0
    /\ validDone = 0
    /\ calls = {}
    /\ samples = {}
    /\ repeated = FALSE
    /\ errors = 0
    /\ errSnap = [phase |-> "none", at |-> <<>>]

\* the training_loop iterator yields until the epoch counter reaches the
\* configured total
training_loop_has_next == epoch < epochs

\* faulty variant of LoopIter: the prompt is set once, before the loop
LoopIterKeepsPrompt ==
    /\ pc = "Idle"
    /\ training_loop_has_next
    /\ epoch' = epoch + 1
    /\ pc' = "Sampling"
    /\ prompt' = IF epoch = 0 THEN PromptText ELSE prompt
    /\ log' = << <<PromptText, "subtle">> >>
    /\ i' = 0
    /\ UNCHANGED <<epochs, nLogs, lastLog, params, training, nTrain, nValid,
                   trainIdx, validIdx, runSteps, trainDone, validDone, calls,
                   samples, repeated, errors, errSnap>>
    /\ UNCHANGED metricVars

\* for _ in self.training_loop: the iterator yields once more
LoopIter ==
    /\ pc = "Idle"
    /\ training_loop_has_next
    /\ epoch' = epoch + 1
    /\ pc' = "Sampling"
    /\ prompt' = PromptText
    /\ log' = << <<PromptText, "subtle">> >>
    /\ i' = 0
    /\ UNCHANGED <<epochs, nLogs, lastLog, params, training, nTrain, nValid,
                   trainIdx, validIdx, runSteps, trainDone, validDone, calls,
                   samples, repeated, errors, errSnap>>
    /\ UNCHANGED metricVars

\* for _ in self.training_loop: the iterator is exhausted, run returns
LoopEnd ==
    /\ pc = "Idle"
    /\ ~training_loop_has_next
    /\ pc' = "Done"
    /\ UNCHANGED <<epochs, epoch, i, prompt, log, nLogs, lastLog, params,
                   training, nTrain, nValid, trainIdx, validIdx, runSteps,
                   trainDone, validDone, calls, samples, repeated, errors, errSnap>>
    /\ UNCHANGED metricVars

\* faulty variant of SampleStep: the step also updates the parameters
SampleStepTrains ==
    /\ pc = "Sampling"
    /\ i < SampleSteps
    /\ \E data \in {text_to_i(prompt)} :
       \E last \in {Forward(params, data)[Len(prompt)]} :
          LET c == itosAt(Argmax(last))
          IN /\ prompt' = Append(prompt, c)
             /\ log' = Append(log, << <<c>>, "value" >>)
    /\ i' = i + 1
    /\ params' = (params + 1) % (MaxParam + 1)
    /\ calls' = calls \cup {<<"Sampling", training>>}
    /\ UNCHANGED <<pc, epochs, epoch, nLogs, lastLog, training, nTrain,
                   nValid, trainIdx, validIdx, runSteps, trainDone, validDone,
                   samples, repeated, errors, errSnap>>
    /\ UNCHANGED metricVars

\* one iteration of the sampling loop: the model is run on the encoded
\* prompt, and the arg-max of the scores at the last position (output[-1]
\* after argmax(dim=-1).squeeze()) is decoded and appended
SampleStep ==
    /\ pc = "Sampling"
    /\ i < SampleSteps
    /\ \E data \in {text_to_i(prompt)} :
       \E last \in {Forward(params, data)[Len(prompt)]} :
          LET c == itosAt(Argmax(last))
          IN /\ prompt' = Append(prompt, c)
             /\ log' = Append(log, << <<c>>, "value" >>)
    /\ i' = i + 1
    /\ calls' = calls \cup {<<"Sampling", training>>}
    /\ UNCHANGED <<pc, epochs, epoch, nLogs, lastLog, params, training, nTrain,
                   nValid, trainIdx, validIdx, runSteps, trainDone, validDone,
                   samples, repeated, errors, errSnap>>
    /\ UNCHANGED metricVars

\* the model raises during a sampling step; run has no handler
SampleError ==
    /\ pc = "Sampling"
    /\ i < SampleSteps
    /\ errors' = errors + 1
    /\ errSnap' = [phase |-> pc, at |-> Progress]
    /\ pc' = "Aborted"
    /\ UNCHANGED <<epochs, epoch, i, prompt, log, nLogs, lastLog, params,
                   training, nTrain, nValid, trainIdx, validIdx, runSteps,
                   trainDone, validDone, calls, samples, repeated>>
    /\ UNCHANGED metricVars

\* run_step begins: TrainPass, model switched to training mode
EnterTrainPass ==
    /\ pc' = "TrainPass"
    /\ training' = TRUE
    /\ trainIdx' = 0

\* faulty variant of LogAndRunStep: the log is never emitted
LogAndRunStepNoLog ==
    /\ pc = "Sampling"
    /\ i = SampleSteps
    /\ samples' = samples \cup {[params |-> params, gen |-> Generated(prompt)]}
    /\ repeated' = (repeated \/ \E r \in samples : r.params = params)
    /\ runSteps' = runSteps + 1
    /\ EnterTrainPass
    /\ UNCHANGED <<epochs, epoch, i, prompt, log, nLogs, lastLog, params, nTrain,
                   nValid, validIdx, trainDone, validDone, calls, errors, errSnap>>
    /\ UNCHANGED metricVars

\* faulty variant of LogAndRunStep: run_step is not called
LogWithoutRunStep ==
    /\ pc = "Sampling"
    /\ i = SampleSteps
    /\ lastLog' = log
    /\ nLogs' = nLogs + 1
    /\ samples' = samples \cup {[params |-> params, gen |-> Generated(prompt)]}
    /\ repeated' = (repeated \/ \E r \in samples : r.params = params)
    /\ pc' = "Idle"
    /\ UNCHANGED <<epochs, epoch, i, prompt, log, params, training, nTrain, nValid,
                   trainIdx, validIdx, runSteps, trainDone, validDone, calls,
                   errors, errSnap>>
    /\ UNCHANGED metricVars

\* the sampling loop is over: logger.log(log), then self.run_step()
LogAndRunStep ==
    /\ pc = "Sampling"
    /\ i = SampleSteps
    /\ lastLog' = log
    /\ nLogs' = nLogs + 1
    /\ samples' = samples \cup {[params |-> params, gen |-> Generated(prompt)]}
    /\ repeated' = (repeated \/ \E r \in samples : r.params = params)
    /\ runSteps' = runSteps + 1
    /\ EnterTrainPass
    /\ UNCHANGED <<epochs, epoch, i, prompt, log, params, nTrain, nValid,
                   validIdx, trainDone, validDone, calls, errors, errSnap>>
    /\ UNCHANGED metricVars

(* ------------------ run_step: TrainPass and ValidPass ----------------- *)
\* one training window: forward, loss, backward, one optimizer step
TrainStep ==
    /\ pc = "TrainPass"
    /\ trainIdx < nTrain
    /\ calls' = calls \cup {<<"TrainPass", training>>}
    /\ \E p \in Params : params' = p
    /\ trainIdx' = trainIdx + 1
    /\ UNCHANGED <<pc, epochs, epoch, i, prompt, log, nLogs, lastLog, training,
                   nTrain, nValid, validIdx, runSteps, trainDone, validDone,
                   samples, repeated, errors, errSnap>>
    /\ UNCHANGED metricVars

\* faulty variant of TrainError: the error is swallowed and the window skipped
TrainErrorSkipped ==
    /\ pc = "TrainPass"
    /\ trainIdx < nTrain
    /\ errors = 0
    /\ errors' = errors + 1
    /\ errSnap' = [phase |-> pc, at |-> Progress]
    /\ trainIdx' = trainIdx + 1
    /\ UNCHANGED <<pc, epochs, epoch, i, prompt, log, nLogs, lastLog, params,
                   training, nTrain, nValid, validIdx, runSteps, trainDone,
                   validDone, calls, samples, repeated>>
    /\ UNCHANGED metricVars

\* the model, the loss or the optimizer raises during a training window;
\* neither run nor main has a handler
TrainError ==
    /\ pc = "TrainPass"
    /\ trainIdx < nTrain
    /\ errors' = errors + 1
    /\ errSnap' = [phase |-> pc, at |-> Progress]
    /\ pc' = "Aborted"
    /\ UNCHANGED <<epochs, epoch, i, prompt, log, nLogs, lastLog, params,
                   training, nTrain, nValid, trainIdx, validIdx, runSteps,
                   trainDone, validDone, calls, samples, repeated>>
    /\ UNCHANGED metricVars

\* the train loader is exhausted: ValidPass, model switched to inference mode
TrainPassEnd ==
    /\ pc = "TrainPass"
    /\ trainIdx = nTrain
    /\ trainDone' = trainDone + 1
    /\ pc' = "ValidPass"
    /\ training' = FALSE
    /\ validIdx' = 0
    /\ UNCHANGED <<epochs, epoch, i, prompt, log, nLogs, lastLog, params, nTrain,
                   nValid, trainIdx, runSteps, validDone, calls, samples,
                   repeated, errors, errSnap>>
    /\ UNCHANGED metricVars

\* one validation window: forward and loss only
ValidStep ==
    /\ pc = "ValidPass"
    /\ validIdx < nValid
    /\ calls' = calls \cup {<<"ValidPass", training>>}
    /\ validIdx' = validIdx + 1
    /\ UNCHANGED <<pc, epochs, epoch, i, prompt, log, nLogs, lastLog, params,
                   training, nTrain, nValid, trainIdx, runSteps, trainDone,
                   validDone, samples, repeated, errors, errSnap>>
    /\ UNCHANGED metricVars

\* the model or the loss raises during a validation window
ValidError ==
    /\ pc = "ValidPass"
    /\ validIdx < nValid
    /\ errors' = errors + 1
    /\ errSnap' = [phase |-> pc, at |-> Progress]
    /\ pc' = "Aborted"
    /\ UNCHANGED <<epochs, epoch, i, prompt, log, nLogs, lastLog, params,
                   training, nTrain, nValid, trainIdx, validIdx, runSteps,
                   trainDone, validDone, calls, samples, repeated>>
    /\ UNCHANGED metricVars

\* the valid loader is exhausted: run_step returns to the loop
ValidPassEnd ==
    /\ pc = "ValidPass"
    /\ validIdx = nValid
    /\ validDone' = validDone + 1
    /\ pc' = "Idle"
    /\ UNCHANGED <<epochs, epoch, i, prompt, log, nLogs, lastLog, params,
                   training, nTrain, nValid, trainIdx, validIdx, runSteps,
                   trainDone, calls, samples, repeated, errors, errSnap>>
    /\ UNCHANGED metricVars

Next ==
    \/ LoopIter
    \/ LoopEnd
    \/ SampleStep
    \/ SampleError
    \/ LogAndRunStep
    \/ TrainStep
    \/ TrainError
    \/ TrainPassEnd
    \/ ValidStep
    \/ ValidError
    \/ ValidPassEnd

(* -------------------------- SimpleAccuracyFunc ------------------------ *)
(* The adapter reduces over the rows (t, b) of a score tensor of shape     *)
(* (T, B, vocab) and a target tensor of shape (T, B); the reduction sum()  *)
(* is folded one row per step.  The quotient is kept as [num, den].        *)

ScoreVectors(v) == [1..v -> 0..MaxScore]

\* pred.eq(target) at one row: pred = output.argmax(dim=-1)
RowCorrect(s, t) == IF Argmax(s) = t THEN 1 ELSE 0

\* the target's score is maximal and no earlier entry reaches it
RowTruth(s, t) ==
    IF (\A j \in DOMAIN s : s[j] <= s[t]) /\ (\A j \in DOMAIN s : j < t => s[j] < s[t])
    THEN 1 ELSE 0

\* faulty variant of SimpleAccuracyFunc: divides by target.shape[0]
SimpleAccuracyFuncDim0(nCorrect, shape) == [num |-> nCorrect, den |-> shape[1]]

\* pred.eq(target).sum().item() / target.shape[1]
SimpleAccuracyFunc(nCorrect, shape) == [num |-> nCorrect, den |-> shape[2]]

InitAccuracy ==
    /\ apc = "Row"
    /\ mT \in 1..MaxT
    /\ mB \in 1..MaxB
    /\ mV \in 1..MaxTokens
    /\ row = 0
    /\ correct = 0
    /\ truth = 0
    /\ acc = [num |-> 0, den |-> 1]

\* the sum takes in one more row (t, b) of output and target
FoldRow ==
    /\ apc = "Row"
    /\ row < mT * mB
    /\ \E s \in ScoreVectors(mV), t \in 1..mV :
        /\ correct' = correct + RowCorrect(s, t)
        /\ truth' = truth + RowTruth(s, t)
    /\ row' = row + 1
    /\ UNCHANGED <<apc, mT, mB, mV, acc>>
    /\ UNCHANGED <<loopVars, lossVars>>

\* SimpleAccuracyFunc.__call__ returns
AccuracyReturn ==
    /\ apc = "Row"
    /\ row = mT * mB
    /\ acc' = SimpleAccuracyFunc(correct, <<mT, mB>>)
    /\ apc' = "Done"
    /\ UNCHANGED <<mT, mB, mV, row, correct, truth>>
    /\ UNCHANGED <<loopVars, lossVars>>

(* --------------------------- CrossEntropyLoss ------------------------- *)
(* nn.CrossEntropyLoss over rows and targets is the mean over the rows of  *)
(*     lse(row) - row[target].                                             *)
(* The lse terms depend on the scores alone, so a loss is kept as the sum  *)
(* of the targets' scores and the row count:                               *)
(*     loss = (LSE(scores) - picked) / rows                                *)

\* x.view(-1, ...): the leading two dimensions (T, B) made one, row-major
RECURSIVE View(_)
View(x) == IF x = <<>> THEN <<>> ELSE Head(x) \o View(Tail(x))

RECURSIVE SumPicked(_, _, _)
SumPicked(rows, tg, n) ==
    IF n = 0 THEN 0 ELSE SumPicked(rows, tg, n - 1) + rows[n][tg[n]]

\* faulty variant of CrossEntropyLoss: the sign of the log-probability is lost
CrossEntropyLossNegated(outs, tgs) ==
    [picked |-> 0 - SumPicked(View(outs), View(tgs), Len(View(outs))),
     rows |-> Len(View(outs))]

\* self.loss(outputs.view(-1, self.n_tokens), targets.view(-1))
CrossEntropyLoss(outs, tgs) ==
    [picked |-> SumPicked(View(outs), View(tgs), Len(View(outs))),
     rows |-> Len(View(outs))]

\* a < b for two losses over the same scores
LossLess(a, b) == a.rows = b.rows /\ a.picked > b.picked

\* a tensor of shape (1, 1) holding x
Single(x) == << <<x>> >>

\* scores of shape (1, 1, vocab) and a target of shape (1, 1)
InitLoss ==
    /\ lpc = "Call"
    /\ outputs \in UNION {{Single(s) : s \in ScoreVectors(v)} : v \in 1..MaxTokens}
    /\ targets \in {Single(t) : t \in DOMAIN outputs[1][1]}
    /\ loss = [picked |-> 0, rows |-> 0]

\* CrossEntropyLoss.__call__
LossCall ==
    /\ lpc = "Call"
    /\ loss' = CrossEntropyLoss(outputs, targets)
    /\ lpc' = "Done"
    /\ UNCHANGED <<outputs, targets>>
    /\ UNCHANGED <<loopVars, accVars>>

(* --------------------------- specifications --------------------------- *)
AccuracyOff ==
    /\ apc = "Off"
    /\ mT = 0 /\ mB = 0 /\ mV = 0
    /\ row = 0
    /\ correct = 0
    /\ truth = 0
    /\ acc = [num |-> 0, den |-> 1]

LossOff ==
    /\ lpc = "Off"
    /\ outputs = <<>>
    /\ targets = <<>>
    /\ loss = [picked |-> 0, rows |-> 0]

LoopOff ==
    /\ pc = "Off"
    /\ epochs = 0 /\ epoch = 0 /\ i = 0
    /\ prompt = <<>> /\ log = <<>> /\ nLogs = 0 /\ lastLog = <<>>
    /\ params = 0 /\ training = TRUE
    /\ nTrain = 0 /\ nValid = 0 /\ trainIdx = 0 /\ validIdx = 0
    /\ runSteps = 0 /\ trainDone = 0 /\ validDone = 0
    /\ calls = {} /\ samples = {} /\ repeated = FALSE
    /\ errors = 0 /\ errSnap = [phase |-> "none", at |-> <<>>]

Init == InitLoop /\ AccuracyOff /\ LossOff

\* Configs.run
Spec == Init /\ [][Next]_vars

\* Configs.run, which goes on as long as it can
FairSpec == Spec /\ WF_vars(Next)

InitA == LoopOff /\ InitAccuracy /\ LossOff

NextAccuracy ==
    \/ FoldRow
    \/ AccuracyReturn

\* one call of SimpleAccuracyFunc
SpecAccuracy == InitA /\ [][NextAccuracy]_vars

InitL == LoopOff /\ AccuracyOff /\ InitLoss

NextLoss == LossCall

\* one call of CrossEntropyLoss
SpecLoss == InitL /\ [][NextLoss]_vars

(* ------------------------------ properties ---------------------------- *)

\* C1: for every configured epoch count N, run makes exactly N run_step
\* calls, each one TrainPass and one ValidPass, and then is Done; an
\* (N+1)-th cycle is never started; unless an error aborts the run, Done is
\* eventually reached.
C1_EpochTermination ==
    /\ [](/\ epoch <= epochs
          /\ runSteps <= epochs
          /\ trainDone <= runSteps
          /\ validDone <= trainDone
          /\ (pc = "Done" => /\ epoch = epochs
                             /\ runSteps = epochs
                             /\ trainDone = epochs
                             /\ validDone = epochs))
    /\ <>(pc \in {"Done", "Aborted"})

C1_Witness == pc = "Done" /\ epochs = 3 /\ validDone = 3 /\ errors = 0

\* C2: within every epoch the 25 sampling steps are over and their log is
\* emitted before TrainPass starts, TrainPass is over before ValidPass
\* starts, and ValidPass is over before the next epoch's Sampling starts.
C2_PhaseOrder ==
    /\ pc \in Phases
    /\ pc = "Sampling" =>
          /\ epoch >= 1 /\ i <= SampleSteps
          /\ nLogs = epoch - 1 /\ runSteps = epoch - 1
          /\ trainDone = epoch - 1 /\ validDone = epoch - 1
    /\ pc = "TrainPass" =>
          /\ i = SampleSteps /\ nLogs = epoch /\ Len(lastLog) = SampleSteps + 1
          /\ runSteps = epoch /\ trainIdx <= nTrain
          /\ trainDone = epoch - 1 /\ validDone = epoch - 1
    /\ pc = "ValidPass" =>
          /\ nLogs = epoch /\ runSteps = epoch
          /\ trainDone = epoch /\ trainIdx = nTrain /\ validIdx <= nValid
          /\ validDone = epoch - 1
    /\ pc \in {"Idle", "Done"} =>
          /\ nLogs = epoch /\ runSteps = epoch
          /\ trainDone = epoch /\ validDone = epoch
          /\ (epoch > 0 => trainIdx = nTrain /\ validIdx = nValid)

C2_Witness == pc = "ValidPass" /\ epoch = 2 /\ validIdx = 1 /\ trainIdx = 2

\* C3: the parameter store changes only in a TrainPass optimizer step; no
\* Sampling step, ValidPass step or loop step changes it.
C3_OnlyTrainPassWritesParams ==
    [][params' # params =>
          /\ pc = "TrainPass" /\ pc' = "TrainPass"
          /\ trainIdx' = trainIdx + 1]_vars

C3_Witness ==
    /\ pc = "Sampling" /\ i = SampleSteps /\ epoch = 2
    /\ nValid > 0 /\ validIdx = nValid
    /\ \E r \in samples : r.params # params

C7_ArgmaxTargetStrictlyLeast ==
    (lpc = "Done" /\ targets = Single(Argmax(outputs[1][1]))) =>
        \A u \in DOMAIN outputs[1][1] :
            u # targets[1][1] =>
                LossLess(loss, CrossEntropyLoss(outputs, Single(u)))

\* C7 (amended): for scores of shape (1, 1, vocab) and the target equal to
\* the arg-max index, the loss is at most the loss against every other target
\* index, and strictly less against every target index whose score is below
\* the maximum.
C7_ArgmaxTargetLeast ==
    (lpc = "Done" /\ targets = Single(Argmax(outputs[1][1]))) =>
        \A u \in DOMAIN outputs[1][1] :
            u # targets[1][1] =>
                /\ ~LossLess(CrossEntropyLoss(outputs, Single(u)), loss)
                /\ outputs[1][1][u] < outputs[1][1][targets[1][1]] =>
                       LossLess(loss, CrossEntropyLoss(outputs, Single(u)))

C7_Witness ==
    /\ lpc = "Done" /\ targets = Single(Argmax(outputs[1][1]))
    /\ \E u \in DOMAIN outputs[1][1] :
          u # targets[1][1] /\ outputs[1][1][u] = outputs[1][1][targets[1][1]]
    /\ \E u \in DOMAIN outputs[1][1] :
          outputs[1][1][u] < outputs[1][1][targets[1][1]]

\* C8 (as claimed): the accuracy is the number of target positions whose
\* target is the arg-max of the scores, divided by the number of target
\* positions T*B, hence between 0 and 1.
C8_AccuracyIsFractionOfPositions ==
    apc = "Done" =>
        /\ acc.den > 0
        /\ acc.num * (mT * mB) = truth * acc.den
        /\ 0 <= acc.num /\ acc.num <= acc.den

\* C8 (amended): the accuracy is the number of target positions whose target
\* is the arg-max of the scores, divided by the batch size B, hence between
\* 0 and T.
C8_AccuracyIsCorrectPerBatchColumn ==
    apc = "Done" =>
        /\ acc.den > 0
        /\ acc.num * mB = truth * acc.den
        /\ 0 <= acc.num /\ acc.num <= mT * acc.den

C8_Witness == apc = "Done" /\ mT = 2 /\ mB = 1 /\ truth = 2 /\ acc.num > acc.den

\* C9: at every model invocation during Sampling and ValidPass the model is
\* in inference mode, and at every invocation during TrainPass it is in
\* training mode.
C9_ModeMatchesPhase == \A c \in calls : c[2] = (c[1] = "TrainPass")

\* C10: an error raised during a TrainPass or ValidPass step aborts the run:
\* it is the only error, the run is Aborted, and nothing has progressed since
\* (no further window, phase or epoch, no retry, no skip).
C10_ErrorAborts ==
    (errors > 0 /\ errSnap.phase \in {"TrainPass", "ValidPass"}) =>
        /\ errors = 1
        /\ pc = "Aborted"
        /\ errSnap.at = Progress

C10_Witness ==
    /\ pc = "Aborted" /\ errSnap.phase = "ValidPass"
    /\ epoch = 2 /\ validIdx = 1 /\ nValid = 2

====
